---- MODULE Spec2Model ----
(***************************************************************************)
(* A model of the HSIS crash-data preparation pipeline:                    *)
(*   dataprep/s0_xlsx2csv.py   convert_xlsx2csv                            *)
(*   dataprep/s1_copy_attr.py  match, find_match, rename_col,              *)
(*                             search_n_move, copy_rest                    *)
(*   dataprep/s3_merge.py      veh_agg, meta_merge                         *)
(*                                                                         *)
(* Four specifications share the variables below:                          *)
(*   SpecMatch      one call of match(first, second)                       *)
(*   SpecReconcile  the script s1_copy_attr.py: search_n_move, copy_rest   *)
(*   SpecVeh        one call of veh_agg(df, crash_year)                    *)
(*   SpecMerge      one call of meta_merge                               *)
(* A specification leaves the variables of the others at their idle value. *)
(***************************************************************************)
EXTENDS Integers, Sequences, FiniteSets, TLC

VARIABLES
    \* match(first, second)
    first, second, flag, mpc,
    \* s1_copy_attr.py
    xlsx17,      \* columns of the primary wa17<tab>.xlsx files
    missing,     \* search_n_move: missing[file], the attributes not found
    header,      \* search_n_move: header[key], the 2017 column names
    key, year, val,
    lack_df, backup_df, prev_len, after_len,
    convert_list, round, idx, attributes17,
    csv,         \* the csv directory: the header line of each file in it
    writes,      \* how often each function wrote each file to the directory
    pc, err,
    \* veh_agg(df, crash_year)
    df, crash_year, veh_out, vpc,
    \* meta_merge
    crash,            \* kwargs['crash']: the caller's dict, year -> table
    meta,             \* meta: year -> merged table
    yr, stage,        \* the year of the loop and the next step of its body
    veh_aggregated, acc_this_yr,
    conn,             \* the in-memory database: its two tables
    records

matchVars == <<first, second, flag, mpc>>
recVars == <<xlsx17, missing, header, key, year, val, lack_df, backup_df,
             prev_len, after_len, convert_list, round, idx, attributes17,
             csv, writes, pc, err>>
vehVars == <<df, crash_year, veh_out, vpc>>
mergeVars == <<crash, meta, yr, stage, veh_aggregated, acc_this_yr, conn,
               records>>
vars == <<matchVars, recVars, vehVars, mergeVars>>

\* None where a column name is expected (rename_col's result); no column of
\* a table is called so
None == <<"None">>
\* a local that is not bound yet
Unbound == "unbound"
\* a dict with no key, and d[k] = v on a dict
EmptyDict == <<>>
Put(d, k, v) == [x \in DOMAIN d \cup {k} |-> IF x = k THEN v ELSE d[x]]
Range(s) == {s[i] : i \in 1..Len(s)}
Min(a, b) == IF a < b THEN a ELSE b

(***************************************************************************)
(* Characters and their case mappings (str.lower, str.upper).  Python      *)
(* strings are Unicode: besides ASCII letters and caseless characters the   *)
(* alphabet holds the digraph U+01C4 (upper), U+01C5 (title), U+01C6        *)
(* (lower), whose title-case form is neither its own lower nor upper case. *)
(***************************************************************************)
Chars == {"a", "A", "b", "B", "c", "C", "x", "1", "U01C4", "U01C5", "U01C6"}

Lower(ch) ==
    CASE ch = "A" -> "a"
      [] ch = "B" -> "b"
      [] ch = "C" -> "c"
      [] ch = "U01C4" -> "U01C6"
      [] ch = "U01C5" -> "U01C6"
      [] OTHER -> ch

Upper(ch) ==
    CASE ch = "a" -> "A"
      [] ch = "b" -> "B"
      [] ch = "c" -> "C"
      [] ch = "x" -> "X"
      [] ch = "U01C6" -> "U01C4"
      [] ch = "U01C5" -> "U01C4"
      [] OTHER -> ch

\* the loop of match from position s on: False at the first character of
\* first whose lower and upper case both differ from second's character
RECURSIVE MatchFrom(_, _, _)
MatchFrom(fst, snd, s) ==
    IF s > Len(fst) THEN TRUE
    ELSE IF Lower(fst[s]) # snd[s] /\ Upper(fst[s]) # snd[s] THEN FALSE
    ELSE MatchFrom(fst, snd, s + 1)

Match(fst, snd) ==
    IF Len(fst) # Len(snd) THEN FALSE ELSE MatchFrom(fst, snd, 1)

RECURSIVE FindMatchFrom(_, _, _)
FindMatchFrom(col, ref_list, i) ==
    IF i > Len(ref_list) THEN FALSE
    ELSE IF Match(col, ref_list[i]) THEN TRUE
    ELSE FindMatchFrom(col, ref_list, i + 1)

FindMatch(col, ref_list) == FindMatchFrom(col, ref_list, 1)

RECURSIVE RenameColFrom(_, _, _)
RenameColFrom(col, ref_list, i) ==
    IF i > Len(ref_list) THEN None
    ELSE IF Match(col, ref_list[i]) THEN ref_list[i]
    ELSE RenameColFrom(col, ref_list, i + 1)

RenameCol(col, ref_list) == RenameColFrom(col, ref_list, 1)

(***************************************************************************)
(* SpecMatch: match on every pair of strings of at most MaxLen characters. *)
(***************************************************************************)
MaxLen == 2

MatchAlphabet == {"a", "A", "1", "U01C5", "U01C6"}

Strings == UNION {[1..n -> MatchAlphabet] : n \in 0..MaxLen}

Table(cols, nrows) == [cols |-> cols, nrows |-> nrows]
NoTable == Table(<<>>, 0)

IdleRec ==
    /\ xlsx17 = <<>> /\ missing = <<>> /\ header = <<>>
    /\ key = Unbound /\ year = 0 /\ val = <<>>
    /\ lack_df = NoTable /\ backup_df = NoTable
    /\ prev_len = 0 /\ after_len = 0
    /\ convert_list = <<>> /\ round = 0 /\ idx = 0 /\ attributes17 = <<>>
    /\ csv = <<>> /\ writes = <<>> /\ pc = "idle" /\ err = Unbound

IdleMatch ==
    /\ first = <<>> /\ second = <<>> /\ flag = FALSE /\ mpc = "idle"

IdleVeh ==
    /\ df = <<>> /\ crash_year = 0 /\ veh_out = <<>> /\ vpc = "idle"

Tbl(cols, rows) == [cols |-> cols, rows |-> rows]
NoTbl == Tbl(<<>>, <<>>)
NoConn == [lname |-> Unbound, rname |-> Unbound, left |-> NoTbl,
           right |-> NoTbl]

IdleMerge ==
    /\ crash = <<>> /\ meta = <<>> /\ yr = 0 /\ stage = "idle"
    /\ veh_aggregated = <<>> /\ acc_this_yr = NoTbl
    /\ conn = NoConn /\ records = NoTbl

InitMatch ==
    /\ first \in Strings
    /\ second \in Strings
    /\ flag = FALSE
    /\ mpc = "call"
    /\ IdleRec
    /\ IdleVeh
    /\ IdleMerge

MatchCall ==
    /\ mpc = "call"
    /\ flag' = Match(first, second)
    /\ mpc' = "returned"
    /\ UNCHANGED <<first, second, recVars, vehVars, mergeVars>>

NextMatch == MatchCall

SpecMatch == InitMatch /\ [][NextMatch]_vars

\* two strings are the same ignoring case: equal length and, at every
\* position, characters with the same case folding
SameIgnoringCase(fst, snd) ==
    /\ Len(fst) = Len(snd)
    /\ \A i \in 1..Len(fst) : Lower(fst[i]) = Lower(snd[i])

\* C2: match(first, second) is true exactly when the strings have the same
\* length and agree at every position ignoring case, and the result is the
\* same with the arguments swapped.
C2_MatchIffSameIgnoringCase ==
    mpc = "returned" =>
        /\ flag = SameIgnoringCase(first, second)
        /\ flag = Match(second, first)

(***************************************************************************)
(* SpecReconcile: the script s1_copy_attr.py.                              *)
(*   a = read_defined_order(); search_n_move(a, ...); copy_rest(...)       *)
(* A file read is an input: the columns of a 2017 primary file are read    *)
(* twice and are part of the state (xlsx17); every other file is read once *)
(* and its columns and row count are drawn where it is read.  Of a written *)
(* csv the directory keeps the header line.                                *)
(***************************************************************************)
Tabs == <<"acc", "curv", "grad", "occ", "peds", "road", "veh">>
TabSet == Range(Tabs)
FirstYear == 13
LastYear == 17
Years == FirstYear..LastYear
Files == Years \X TabSet

TabIndex(tab) == CHOOSE i \in 1..Len(Tabs) : Tabs[i] = tab

\* column names, as sequences of characters
nAB == <<"A", "B">>
nAb == <<"A", "b">>
nab == <<"a", "b">>
nC == <<"C">>
nc == <<"c">>
nx == <<"x">>

\* read_defined_order: the ordered attribute list of each tab
attributes == [tab \in TabSet |-> <<nAB, nC>>]

\* what a primary wa17<tab>.xlsx may hold: every attribute under another
\* capitalisation and in another order, or one attribute short
Cols17 == {<<nc, nab>>, <<nc>>}
\* what a primary file of another year may hold: the 2017 columns under
\* another capitalisation, with or without the attribute 2017 lacks
PrimaryCols == {<<nC>>, <<nC, nab>>}
\* what a secondary (reference) file may hold: the attribute 2017 lacks
\* under one capitalisation or another, or not at all
SecondaryCols17 == {<<nAb>>, <<nx>>}
SecondaryCols == {<<nAb>>, <<nx, nab>>, <<nx>>}
MaxRows == 2
RowCounts == 1..MaxRows

InitReconcile ==
    /\ xlsx17 \in [TabSet -> Cols17]
    /\ missing = EmptyDict
    /\ header = EmptyDict
    /\ key = Unbound /\ year = 0 /\ val = <<>>
    /\ lack_df = NoTable /\ backup_df = NoTable
    /\ prev_len = 0 /\ after_len = 0
    /\ convert_list = <<>> /\ round = 0 /\ idx = 0
    /\ attributes17 = EmptyDict
    /\ csv = EmptyDict
    /\ writes = [f \in Files |-> [search_n_move |-> 0, copy_rest |-> 0]]
    /\ pc = "scan" /\ err = Unbound
    /\ IdleMatch
    /\ IdleVeh
    /\ IdleMerge

\* search_n_move, lines 132-139: the attributes of each tab that have no
\* match among the columns of the primary 2017 file
MissingOf(tab) ==
    SelectSeq(attributes[tab], LAMBDA col : ~FindMatch(col, xlsx17[tab]))

ScanMissing ==
    /\ pc = "scan"
    /\ missing' = [tab \in {t \in TabSet : MissingOf(t) # <<>>} |->
                       MissingOf(tab)]
    /\ pc' = "search"
    /\ UNCHANGED <<xlsx17, header, key, year, val, lack_df, backup_df,
                   prev_len, after_len, convert_list, round, idx,
                   attributes17, csv, writes, err, matchVars, vehVars, mergeVars>>

\* missing.items(): the tabs with a missing attribute, in insertion order
MissingKeysAfter(i) ==
    {j \in (i + 1)..Len(Tabs) : Tabs[j] \in DOMAIN missing}

\* the loops "for key, val in missing.items(): for year in range(17, 12, -1)":
\* the iteration that follows the one (key, year) stand for, NoIter at the end
NoIter == [key |-> Unbound, year |-> 0]

NextIter ==
    IF key # Unbound /\ year > FirstYear
    THEN [key |-> key, year |-> year - 1]
    ELSE LET i == IF key = Unbound THEN 0 ELSE TabIndex(key)
             rest == MissingKeysAfter(i)
         IN IF rest = {} THEN NoIter
            ELSE [key |-> Tabs[CHOOSE j \in rest : \A k \in rest : j <= k],
                  year |-> LastYear]

\* backup_df[val]: the columns named by val, a KeyError when one is not a
\* column of the table (None never is)
SelectColumnsDropping(table, names) ==
    [error |-> "",
     df |-> Table(SelectSeq(names, LAMBDA c : c \in Range(table.cols)),
                  table.nrows)]

SelectColumns(table, names) ==
    IF \A i \in 1..Len(names) : names[i] \in Range(table.cols)
    THEN [error |-> "", df |-> Table(names, table.nrows)]
    ELSE [error |-> "KeyError", df |-> NoTable]

\* pd.merge(left, right, left_index=True, right_index=True): an inner join
\* on the row labels 0..n-1 of both tables; a column name the two share
\* gets the suffixes _x and _y
MergeOnIndex(left, right) ==
    LET l == left.cols
        r == right.cols
    IN Table([i \in 1..(Len(l) + Len(r)) |->
                IF i <= Len(l)
                THEN IF l[i] \in Range(r) THEN l[i] \o <<"_", "x">> ELSE l[i]
                ELSE IF r[i - Len(l)] \in Range(l)
                     THEN r[i - Len(l)] \o <<"_", "y">>
                     ELSE r[i - Len(l)]],
             Min(left.nrows, right.nrows))

\* lack_df.columns = header[key]: a ValueError when the lengths differ
SetColumnsKeep(table, names) == [error |-> "", df |-> table]

SetColumns(table, names) ==
    IF Len(names) = Len(table.cols)
    THEN [error |-> "", df |-> Table(names, table.nrows)]
    ELSE [error |-> "ValueError", df |-> table]

\* One iteration of the year loop of search_n_move (lines 150-175) for the
\* tab and year of it, on a primary table lack and a secondary table backup:
\* the values of the locals when the iteration ends, and how it ends.
SnmIteration(it, lack, backup) ==
    LET val0 == IF it.year = LastYear THEN missing[it.key] ELSE val
        val1 == [i \in 1..Len(val0) |-> RenameCol(val0[i], backup.cols)]
        selected == SelectColumns(backup, val1)
        sel == selected.df
        base == [kind |-> "ok", val |-> val1, lack_df |-> lack,
                 backup_df |-> backup, prev_len |-> prev_len,
                 after_len |-> after_len, header |-> header]
    IN IF selected.error # "" THEN [base EXCEPT !.kind = selected.error]
       ELSE LET merged == MergeOnIndex(lack, sel)
                m == [base EXCEPT !.backup_df = sel, !.lack_df = merged,
                                  !.prev_len = lack.nrows,
                                  !.after_len = merged.nrows]
            IN IF Len(sel.cols) # Len(val1)
                  \/ lack.nrows # merged.nrows
                  \/ Len(lack.cols) + Len(val1) # Len(merged.cols)
               THEN [m EXCEPT !.kind = "AssertionError"]
               ELSE IF it.year = LastYear
               THEN [m EXCEPT !.header = Put(header, it.key, merged.cols)]
               ELSE LET renamed == SetColumns(merged, header[it.key])
                    IN IF renamed.error # ""
                       THEN [m EXCEPT !.kind = renamed.error]
                       ELSE [m EXCEPT !.lack_df = renamed.df]

PrimaryRead(it) ==
    IF it.year = LastYear THEN {xlsx17[it.key]} ELSE PrimaryCols

SecondaryRead(it) ==
    IF it.year = LastYear THEN SecondaryCols17 ELSE SecondaryCols

\* an iteration that reaches its to_csv (line 175)
SearchWrite ==
    /\ pc = "search"
    /\ NextIter # NoIter
    /\ \E it \in {NextIter} :
       \E lc \in PrimaryRead(it), n \in RowCounts,
          bc \in SecondaryRead(it), m \in RowCounts :
       \E r \in {SnmIteration(it, Table(lc, n), Table(bc, m))} :
            /\ r.kind = "ok"
            /\ key' = it.key
            /\ year' = it.year
            /\ val' = r.val
            /\ lack_df' = r.lack_df
            /\ backup_df' = r.backup_df
            /\ prev_len' = r.prev_len
            /\ after_len' = r.after_len
            /\ header' = r.header
            /\ csv' = Put(csv, <<it.year, it.key>>, r.lack_df.cols)
            /\ writes' = [writes EXCEPT
                             ![<<it.year, it.key>>].search_n_move = @ + 1]
    /\ UNCHANGED <<xlsx17, missing, convert_list, round, idx, attributes17,
                   pc, err, matchVars, vehVars, mergeVars>>

\* an iteration that raises (lines 156, 157, 163, 164, 172): the script ends
SearchRaise ==
    /\ pc = "search"
    /\ NextIter # NoIter
    /\ \E it \in {NextIter} :
       \E lc \in PrimaryRead(it), n \in RowCounts,
          bc \in SecondaryRead(it), m \in RowCounts :
       \E r \in {SnmIteration(it, Table(lc, n), Table(bc, m))} :
            /\ r.kind # "ok"
            /\ key' = it.key
            /\ year' = it.year
            /\ val' = r.val
            /\ lack_df' = r.lack_df
            /\ backup_df' = r.backup_df
            /\ prev_len' = r.prev_len
            /\ after_len' = r.after_len
            /\ header' = r.header
            /\ pc' = "failed"
            /\ err' = r.kind
    /\ UNCHANGED <<xlsx17, missing, convert_list, round, idx, attributes17,
                   csv, writes, matchVars, vehVars, mergeVars>>

(***************************************************************************)
(* copy_rest (s1_copy_attr.py, lines 199-208) and convert_xlsx2csv         *)
(* (s0_xlsx2csv.py, lines 69-84).  A file of convert_list is <<year, tab>> *)
(* for the name 'wa<year><tab>.xlsx': '17' is in the name exactly when the  *)
(* year is 17, and name.split('.')[0][4:] is the tab.                      *)
(***************************************************************************)
\* the tabs with no csv in the directory
CurrListAll == TabSet

CurrList == TabSet \ {f[2] : f \in DOMAIN csv}

\* the orders in which the set curr_list may be iterated: a Python set has
\* no defined order; the model takes the rotations of the listing order
SetOrders(S) ==
    LET base == SelectSeq(Tabs, LAMBDA t : t \in S)
        n == Len(base)
    IN IF n = 0 THEN {<<>>}
       ELSE {[i \in 1..n |-> base[((i + k - 1) % n) + 1]] : k \in 0..(n - 1)}

\* for year in range(13, 18): for item in curr_list: append
ConvertList(order) ==
    [i \in 1..(Len(order) * (LastYear - FirstYear + 1)) |->
        <<FirstYear + ((i - 1) \div Len(order)),
          order[((i - 1) % Len(order)) + 1]>>]

\* search_n_move has returned (its locals are gone); copy_rest builds
\* convert_list and calls convert_xlsx2csv
CopyRest ==
    /\ pc = "search"
    /\ NextIter = NoIter
    /\ \E order \in SetOrders(CurrList) :
         convert_list' = (IF order = <<>> THEN <<>> ELSE ConvertList(order))
    /\ round' = 1
    /\ idx' = 1
    /\ pc' = "convert"
    /\ missing' = EmptyDict /\ header' = EmptyDict
    /\ key' = Unbound /\ year' = 0 /\ val' = <<>>
    /\ lack_df' = NoTable /\ backup_df' = NoTable
    /\ prev_len' = 0 /\ after_len' = 0
    /\ UNCHANGED <<xlsx17, attributes17, csv, writes, err, matchVars, vehVars, mergeVars>>

Has17(file) == file[1] = 17

\* first round: a 2017 file is read, its columns remembered, and written
ConvertFirst ==
    /\ pc = "convert" /\ round = 1 /\ idx <= Len(convert_list)
    /\ Has17(convert_list[idx])
    /\ LET file == convert_list[idx]
           curr == xlsx17[file[2]]
       IN /\ attributes17' = Put(attributes17, file[2], curr)
          /\ csv' = Put(csv, file, curr)
          /\ writes' = [writes EXCEPT ![file].copy_rest = @ + 1]
    /\ idx' = idx + 1
    /\ UNCHANGED <<xlsx17, missing, header, key, year, val, lack_df,
                   backup_df, prev_len, after_len, convert_list, round, pc,
                   err, matchVars, vehVars, mergeVars>>

\* a file the round's test ('17' in file, '17' not in file) passes over
ConvertSkip ==
    /\ pc = "convert" /\ idx <= Len(convert_list)
    /\ (round = 1) = ~Has17(convert_list[idx])
    /\ idx' = idx + 1
    /\ UNCHANGED <<xlsx17, missing, header, key, year, val, lack_df,
                   backup_df, prev_len, after_len, convert_list, round,
                   attributes17, csv, writes, pc, err, matchVars, vehVars, mergeVars>>

ConvertNextRound ==
    /\ pc = "convert" /\ round = 1 /\ idx > Len(convert_list)
    /\ round' = 2
    /\ idx' = 1
    /\ UNCHANGED <<xlsx17, missing, header, key, year, val, lack_df,
                   backup_df, prev_len, after_len, convert_list,
                   attributes17, csv, writes, pc, err, matchVars, vehVars, mergeVars>>

\* second round: a file of another year gets the 2017 columns of its tab
\* (a KeyError when the first round remembered none) and is written
ConvertSecond ==
    /\ pc = "convert" /\ round = 2 /\ idx <= Len(convert_list)
    /\ ~Has17(convert_list[idx])
    /\ convert_list[idx][2] \in DOMAIN attributes17
    /\ \E cols \in PrimaryCols, n \in RowCounts :
       \E curr \in {SetColumns(Table(cols, n),
                                attributes17[convert_list[idx][2]])} :
            /\ curr.error = ""
            /\ csv' = Put(csv, convert_list[idx], curr.df.cols)
            /\ writes' = [writes EXCEPT ![convert_list[idx]].copy_rest = @ + 1]
    /\ idx' = idx + 1
    /\ UNCHANGED <<xlsx17, missing, header, key, year, val, lack_df,
                   backup_df, prev_len, after_len, convert_list, round,
                   attributes17, pc, err, matchVars, vehVars, mergeVars>>

ConvertRaise ==
    /\ pc = "convert" /\ round = 2 /\ idx <= Len(convert_list)
    /\ ~Has17(convert_list[idx])
    /\ convert_list[idx][2] \in DOMAIN attributes17
    /\ \E cols \in PrimaryCols, n \in RowCounts :
       \E curr \in {SetColumns(Table(cols, n),
                                attributes17[convert_list[idx][2]])} :
            /\ curr.error # ""
            /\ err' = curr.error
    /\ pc' = "failed"
    /\ UNCHANGED <<xlsx17, missing, header, key, year, val, lack_df,
                   backup_df, prev_len, after_len, convert_list, round, idx,
                   attributes17, csv, writes, matchVars, vehVars, mergeVars>>

ConvertReturn ==
    /\ pc = "convert" /\ round = 2 /\ idx > Len(convert_list)
    /\ pc' = "done"
    /\ UNCHANGED <<xlsx17, missing, header, key, year, val, lack_df,
                   backup_df, prev_len, after_len, convert_list, round, idx,
                   attributes17, csv, writes, err, matchVars, vehVars, mergeVars>>

NextReconcile ==
    \/ ScanMissing
    \/ SearchWrite
    \/ SearchRaise
    \/ CopyRest
    \/ ConvertFirst
    \/ ConvertSkip
    \/ ConvertNextRound
    \/ ConvertSecond
    \/ ConvertRaise
    \/ ConvertReturn

SpecReconcile == InitReconcile /\ [][NextReconcile]_vars

\* the files a function has written
WrittenBy(fn) == {f \in Files : writes[f][fn] > 0}
\* search_n_move has just written the csv of (year, key)
JustWritten == pc = "search" /\ key # Unbound

\* C1: every table search_n_move writes has exactly the columns of its
\* tab's attribute list, in that order.
C1_WrittenColumnsAreCanonical ==
    \A f \in WrittenBy("search_n_move") : csv[f] = attributes[f[2]]

\* C6: search_n_move writes the csv of a year and tab only when the primary
\* and the secondary table of that year and tab have the same row count.
C6_RowCountMismatchStopsRun ==
    JustWritten => prev_len = backup_df.nrows

\* C7: an attribute with no match in the secondary table of a year makes
\* rename_col return None and the column selection raise: the csv of that
\* year and tab is not written, and every table search_n_move has written
\* holds one merged column per missing attribute, under a matching name.
C7_UnmatchedAttributeRaises ==
    /\ (None \in Range(val)) <=> (pc = "failed" /\ err = "KeyError")
    /\ None \in Range(val) => <<year, key>> \notin DOMAIN csv
    /\ JustWritten =>
          /\ Len(backup_df.cols) = Len(missing[key])
          /\ Len(csv[<<year, key>>]) = Len(xlsx17[key]) + Len(missing[key])
          /\ \A i \in 1..Len(missing[key]) :
                Match(missing[key][i], backup_df.cols[i])
    /\ \A f \in WrittenBy("search_n_move") :
          \A i \in 1..Len(MissingOf(f[2])) : FindMatch(MissingOf(f[2])[i], csv[f])

\* an attribute unmatched in the secondary table of 2016, after the csv of
\* 2017 was written
C7_Witness ==
    /\ pc = "failed" /\ err = "KeyError" /\ year = 16
    /\ None \in Range(val)
    /\ <<17, key>> \in DOMAIN csv

\* C8: when search_n_move and copy_rest have run to the end from an empty
\* csv directory, each of the 35 files has been written exactly once: by
\* search_n_move when its tab has a missing attribute, by copy_rest
\* otherwise; and no file is ever written twice.
C8_EveryPairWrittenOnce ==
    /\ \A f \in Files : writes[f].search_n_move + writes[f].copy_rest <= 1
    /\ pc = "done" =>
          /\ DOMAIN csv = Files
          /\ Cardinality(DOMAIN csv) = 35
          /\ \A f \in Files :
                /\ writes[f].search_n_move =
                      (IF MissingOf(f[2]) # <<>> THEN 1 ELSE 0)
                /\ writes[f].copy_rest =
                      (IF MissingOf(f[2]) # <<>> THEN 0 ELSE 1)

C8_Witness ==
    /\ pc = "done"
    /\ WrittenBy("search_n_move") # {}
    /\ WrittenBy("copy_rest") # {}

\* C9: every csv in the directory carries the column names of the 2017 csv
\* of its tab, which was written before it; a file of another year is
\* handled only when the 2017 header of its tab is known.
C9_SameHeaderAsYear17 ==
    /\ \A f \in DOMAIN csv :
          /\ <<17, f[2]>> \in DOMAIN csv
          /\ csv[f] = csv[<<17, f[2]>>]
    /\ (pc \in {"search", "failed"} /\ key # Unbound)
          => (key \in DOMAIN header <=> <<17, key>> \in DOMAIN csv)
    /\ (pc = "convert" /\ round = 2) =>
          \A i \in 1..Len(convert_list) :
              convert_list[i][2] \in DOMAIN attributes17

\* files of 2013 written by both functions, from tables whose own column
\* names were not those of 2017
C9_Witness ==
    /\ \E f \in WrittenBy("search_n_move") : f[1] = 13
    /\ \E f \in WrittenBy("copy_rest") : f[1] = 13
    /\ \A f \in DOMAIN csv : csv[f] \notin PrimaryCols

(***************************************************************************)
(* SpecVeh: veh_agg(df, crash_year) (s3_merge.py, lines 178-247).  A       *)
(* vehicle row holds CASENO, DRV_SEX, DRV_AGE, vehtype, vehyr and intox.   *)
(***************************************************************************)
CaseNos == {1, 2}
FirstCrashYear == 2013
LastCrashYear == 2017
CrashYears == FirstCrashYear..LastCrashYear

VehRow(c, s, a, t, y, i) ==
    [CASENO |-> c, DRV_SEX |-> s, DRV_AGE |-> a, vehtype |-> t, vehyr |-> y,
     intox |-> i]

\* the values a field takes, the first being the typical one
SexCodes == <<1, 2>>
Ages == <<25, 24, 65, 66>>
VehTypes == <<4, 5>>
VehYears == <<3, 2, 19, 20, 98, 99>>
IntoxCodes == <<0, 1, 5, 2>>

\* vehicle rows: the typical row with at most one field changed, and the
\* row of a young driver of sex code 2
VehRows ==
    {VehRow(c, s, 25, 4, 3, 0) : c \in CaseNos, s \in Range(SexCodes)}
    \cup {VehRow(c, 1, a, 4, 3, 0) : c \in CaseNos, a \in Range(Ages)}
    \cup {VehRow(c, 1, 25, t, 3, 0) : c \in CaseNos, t \in Range(VehTypes)}
    \cup {VehRow(c, 1, 25, 4, y, 0) : c \in CaseNos, y \in Range(VehYears)}
    \cup {VehRow(c, 1, 25, 4, 3, i) : c \in CaseNos, i \in Range(IntoxCodes)}
    \cup {VehRow(c, 2, 24, 4, 3, 0) : c \in CaseNos}

MaxVehRows == 2

SeqsUpTo(S, n) == UNION {[1..k -> S] : k \in 0..n}

\* the values of column col in the rows of one case, in row order
Series(table, caseno, col) ==
    LET group == SelectSeq(table, LAMBDA r : r.CASENO = caseno)
    IN [i \in 1..Len(group) |-> group[i][col]]

\* the aggregation functions: each returns True at the first element that
\* satisfies its test and False when the loop ends
sex(series) == \E i \in 1..Len(series) : series[i] > 1
young(series) == \E i \in 1..Len(series) : series[i] < 25
old(series) == \E i \in 1..Len(series) : series[i] > 65
drink(series) == \E i \in 1..Len(series) : series[i] = 1 \/ series[i] = 5
truck(series) == \E i \in 1..Len(series) : series[i] > 4

\* old_car, lines 225-231: the model year of a two-digit code
ModelYearCentury(ele) == 1900 + ele

ModelYear(ele) ==
    IF ele < 10 THEN 1900 + (100 + ele)
    ELSE IF ele < 20 THEN 1900 + (100 + ele)
    ELSE 1900 + ele

old_car(series, cy) ==
    \E i \in 1..Len(series) : cy - ModelYear(series[i]) >= 15

\* a set of numbers as the ascending sequence of its elements
RECURSIVE SortedSeq(_)
SortedSeq(S) ==
    IF S = {} THEN <<>>
    ELSE LET m == CHOOSE x \in S : \A y \in S : x <= y
         IN <<m>> \o SortedSeq(S \ {m})

\* df.groupby(['CASENO']).agg(...), the column level dropped, reset_index:
\* one row per case number, in ascending order
VehAgg(table, cy) ==
    LET keys == SortedSeq({table[i].CASENO : i \in 1..Len(table)})
    IN [k \in 1..Len(keys) |->
          [CASENO |-> keys[k],
           sex |-> sex(Series(table, keys[k], "DRV_SEX")),
           young |-> young(Series(table, keys[k], "DRV_AGE")),
           old |-> old(Series(table, keys[k], "DRV_AGE")),
           truck |-> truck(Series(table, keys[k], "vehtype")),
           old_car |-> old_car(Series(table, keys[k], "vehyr"), cy),
           drink |-> drink(Series(table, keys[k], "intox"))]]

InitVeh ==
    /\ df \in SeqsUpTo(VehRows, MaxVehRows)
    /\ crash_year \in CrashYears
    /\ veh_out = <<>>
    /\ vpc = "call"
    /\ IdleMatch
    /\ IdleRec
    /\ IdleMerge

VehAggCall ==
    /\ vpc = "call"
    /\ veh_out' = VehAgg(df, crash_year)
    /\ vpc' = "returned"
    /\ UNCHANGED <<df, crash_year, matchVars, recVars, mergeVars>>

NextVeh == VehAggCall

SpecVeh == InitVeh /\ [][NextVeh]_vars

\* the vehicle rows of a case
VehiclesOf(caseno) == {i \in 1..Len(df) : df[i].CASENO = caseno}
\* the model year the claim reads from a two-digit code
DecodedYear(code) == IF code < 20 THEN 2000 + code ELSE 1900 + code

\* C5: veh_agg returns one row per case number of df, and in it each flag is
\* true exactly when some vehicle row of the case satisfies the flag's test.
C5_OneRowPerCaseWithAnyFlags ==
    vpc = "returned" =>
        /\ Len(veh_out) = Cardinality({df[i].CASENO : i \in 1..Len(df)})
        /\ \A c \in {df[i].CASENO : i \in 1..Len(df)} :
              \E k \in 1..Len(veh_out) : veh_out[k].CASENO = c
        /\ \A k \in 1..Len(veh_out) :
              LET rows == VehiclesOf(veh_out[k].CASENO)
              IN /\ rows # {}
                 /\ veh_out[k].sex = (\E i \in rows : df[i].DRV_SEX > 1)
                 /\ veh_out[k].young = (\E i \in rows : df[i].DRV_AGE < 25)
                 /\ veh_out[k].old = (\E i \in rows : df[i].DRV_AGE > 65)
                 /\ veh_out[k].truck = (\E i \in rows : df[i].vehtype > 4)
                 /\ veh_out[k].drink =
                       (\E i \in rows : df[i].intox \in {1, 5})
                 /\ veh_out[k].old_car =
                       (\E i \in rows :
                           crash_year - DecodedYear(df[i].vehyr) >= 15)

\* a case with an old driver of sex code 1 and a young driver of sex code 2:
\* old, young and sex are true and the flags no row satisfies are false
C5_Witness ==
    /\ vpc = "returned"
    /\ \E k \in 1..Len(veh_out) :
          /\ Cardinality(VehiclesOf(veh_out[k].CASENO)) = 2
          /\ veh_out[k].old /\ veh_out[k].young /\ veh_out[k].sex
          /\ ~veh_out[k].truck /\ ~veh_out[k].drink /\ ~veh_out[k].old_car

(***************************************************************************)
(* SpecMerge: meta_merge (s3_merge.py, lines 249-408) as the script calls  *)
(* it (lines 431-443, subsets=None).  A table is its column names and its  *)
(* rows, a row a function from column name to value.  kwargs['crash'] is   *)
(* part of the state; the tables veh[yr], road[yr], curv[yr] and grad[yr]  *)
(* are each used once and are drawn where they are used.  The accident     *)
(* table of one year holds rows, with one row per case number.             *)
(***************************************************************************)
\* a missing value of a numeric column, and of the text column dir_grad
NaN == -1
NaNText == "nan"
NullOf(col) == IF col = "dir_grad" THEN NaNText ELSE NaN

\* inventory ids: of accident rows, and of segments (so that an accident
\* row may bear an id no segment has)
InvIds == {1, 2}
SegInvIds == {1}
Mileposts == {0, 1}
MaxSegs == 2

acc_drop == <<"GPS_LATX", "GPS_LATY", "GPS_LATZ", "xrdclass", "loc_char",
              "CITY", "AC_SRMPI">>
road_drop == <<"TRLL_LG1", "TRLL_LG2", "TRLL_WD1", "TRLL_WD2", "TRLR_LG1",
               "TRLR_LG2", "TRLR_WD1", "TRLR_WD2", "DOMAIN", "COUNTY",
               "RTE_NBR">>
curv_drop == <<"seg_lng">>
grad_drop == <<>>

AccCols == <<"CASENO", "rd_inv", "milepost">> \o acc_drop
RoadCols == <<"ROAD_INV", "BEGMP", "ENDMP", "AADT">> \o road_drop
CurvCols == <<"curv_inv", "begmp", "endmp", "deg_curv">> \o curv_drop
GradCols == <<"grad_inv", "begmp", "endmp", "dir_grad", "pct_grad">>
    \o grad_drop
VehAggCols == <<"CASENO", "sex", "young", "old", "truck", "old_car", "drink">>

RoadKeys == [inv |-> "ROAD_INV", beg |-> "BEGMP", end |-> "ENDMP"]
CurvKeys == [inv |-> "curv_inv", beg |-> "begmp", end |-> "endmp"]
GradKeys == [inv |-> "grad_inv", beg |-> "begmp", end |-> "endmp"]
KeyCols(K) == <<K.inv, K.beg, K.end>>

\* an accident row and the accident tables of a year: at most one row per
\* case number, in ascending order
AccRow(c, inv, mp) ==
    [col \in Range(AccCols) |->
        CASE col = "CASENO" -> c
          [] col = "rd_inv" -> inv
          [] col = "milepost" -> mp
          [] OTHER -> 0]

AccPlace == InvIds \X Mileposts

AccTables ==
    {Tbl(AccCols, rows) :
        rows \in {<<>>}
            \cup {<<AccRow(c, p[1], p[2])>> : c \in CaseNos, p \in AccPlace}
            \cup {<<AccRow(1, p[1], p[2]), AccRow(2, q[1], q[2])>> :
                     p \in AccPlace, q \in AccPlace}}

\* the vehicle tables of a year: typical rows
MergeVehRows == {VehRow(c, 1, 25, 4, 3, 0) : c \in CaseNos}

\* a segment: its inventory id and milepost range
Segs == {s \in [inv : SegInvIds, beg : Mileposts, end : Mileposts] :
            s.beg <= s.end}

\* the i-th row of a road, curve or grade table, for segment s: its
\* attribute is i, so that rows of a table differ in it
SegRow(cols, K, s, i) ==
    [col \in Range(cols) |->
        CASE col = K.inv -> s.inv
          [] col = K.beg -> s.beg
          [] col = K.end -> s.end
          [] col \in {"AADT", "deg_curv", "pct_grad"} -> i
          [] col = "dir_grad" -> "+"
          [] OTHER -> 0]

\* the segment tables: at most MaxSegs segments, listed by inventory id,
\* begin and end; two rows may hold the same range
SegRank(s) == (s.inv * 100) + (s.beg * 10) + s.end

SegTables(cols, K) ==
    {Tbl(cols, [i \in 1..Len(ss) |-> SegRow(cols, K, ss[i], i)]) :
        ss \in {q \in SeqsUpTo(Segs, MaxSegs) :
                  \A i \in 1..(Len(q) - 1) : SegRank(q[i]) <= SegRank(q[i + 1])}}

RoadTables == SegTables(RoadCols, RoadKeys)
CurvTables == SegTables(CurvCols, CurvKeys)
GradTables == SegTables(GradCols, GradKeys)
VehTables == SeqsUpTo(MergeVehRows, MaxVehRows)

\* DataFrame.drop(names, axis=1)
DropNothing(table, names) == table

Drop(table, names) ==
    LET keep == SelectSeq(table.cols, LAMBDA c : c \notin Range(names))
    IN Tbl(keep,
           [i \in 1..Len(table.rows) |->
               [c \in Range(keep) |-> table.rows[i][c]]])

CaseSet(rows) == {rows[i]["CASENO"] : i \in 1..Len(rows)}

\* crash[yr].merge(veh_aggregated, on='CASENO'): an inner join
RECURSIVE MergeRows(_, _)
MergeRows(lrows, rrows) ==
    IF lrows = <<>> THEN <<>>
    ELSE LET l == Head(lrows)
             hits == SelectSeq(rrows, LAMBDA r : r.CASENO = l["CASENO"])
         IN [i \in 1..Len(hits) |->
                [c \in DOMAIN l \cup DOMAIN hits[i] |->
                    IF c \in DOMAIN l THEN l[c] ELSE hits[i][c]]]
            \o MergeRows(Tail(lrows), rrows)

MergeOnCaseNo(left, right) ==
    Tbl(left.cols \o SelectSeq(VehAggCols, LAMBDA c : c # "CASENO"),
        MergeRows(left.rows, right))

\* the join condition of the three queries
InSegment(l, r, K) ==
    /\ l["rd_inv"] = r[K.inv]
    /\ l["milepost"] >= r[K.beg]
    /\ l["milepost"] <= r[K.end]

Joined(l, r) == [c \in DOMAIN l \cup DOMAIN r |->
                    IF c \in DOMAIN l THEN l[c] ELSE r[c]]

\* SELECT * FROM crash, road WHERE ...: the pairs that satisfy the condition
RECURSIVE InnerRows(_, _, _)
InnerRows(lrows, rrows, K) ==
    IF lrows = <<>> THEN <<>>
    ELSE LET l == Head(lrows)
             hits == SelectSeq(rrows, LAMBDA r : InSegment(l, r, K))
         IN [i \in 1..Len(hits) |-> Joined(l, hits[i])]
            \o InnerRows(Tail(lrows), rrows, K)

InnerJoin(left, right, K) ==
    Tbl(left.cols \o right.cols, InnerRows(left.rows, right.rows, K))

\* SELECT * FROM records LEFT JOIN seg ON ...: a row with no segment is
\* kept, with NULL in the segment's columns
RECURSIVE LeftRows(_, _, _)
LeftRows(lrows, right, K) ==
    IF lrows = <<>> THEN <<>>
    ELSE LET l == Head(lrows)
             hits == SelectSeq(right.rows, LAMBDA r : InSegment(l, r, K))
             nulls == [c \in Range(right.cols) |-> NullOf(c)]
         IN (IF hits = <<>> THEN <<Joined(l, nulls)>>
             ELSE [i \in 1..Len(hits) |-> Joined(l, hits[i])])
            \o LeftRows(Tail(lrows), right, K)

LeftJoinAsInner(left, right, K) == InnerJoin(left, right, K)

LeftJoin(left, right, K) ==
    Tbl(left.cols \o right.cols, LeftRows(left.rows, right, K))

\* records.sample(frac=1).drop_duplicates(subset='CASENO').sort_index():
\* the rows are shuffled, the first row of each case number in the shuffled
\* order is kept, and the kept rows are put back in their first order.  Any
\* row of a case number can come first: Keepers is the sets of row numbers
\* that can be kept.
KeepFirst(rows) ==
    {{i \in 1..Len(rows) :
         \A j \in 1..(i - 1) : rows[j]["CASENO"] # rows[i]["CASENO"]}}

KeepAll(rows) == {1..Len(rows)}

Keepers(rows) ==
    {keep \in SUBSET (1..Len(rows)) :
        \A c \in CaseSet(rows) :
            Cardinality({i \in keep : rows[i]["CASENO"] = c}) = 1}

RECURSIVE SubSeqAt(_, _, _)
SubSeqAt(rows, keep, i) ==
    IF i > Len(rows) THEN <<>>
    ELSE (IF i \in keep THEN <<rows[i]>> ELSE <<>>)
         \o SubSeqAt(rows, keep, i + 1)

KeepRows(table, keep) == Tbl(table.cols, SubSeqAt(table.rows, keep, 1))

\* records.fillna(value={col: v})
FillNa(table, col, v) ==
    Tbl(table.cols,
        [i \in 1..Len(table.rows) |->
            [c \in DOMAIN table.rows[i] |->
                IF c = col /\ table.rows[i][c] = NullOf(c) THEN v
                ELSE table.rows[i][c]]])

\* isinstance(v, str) for the value v of column c: dir_grad is the one
\* column of text, and its missing values are not text
IsStr(c, v) == c = "dir_grad" /\ v # NaNText

\* lines 399-401: in the last column but one, what is not a str becomes '0'
FixLastButOne(table) ==
    LET col == table.cols[Len(table.cols) - 1]
    IN Tbl(table.cols,
           [i \in 1..Len(table.rows) |->
               [c \in DOMAIN table.rows[i] |->
                   IF c = col /\ ~IsStr(c, table.rows[i][c])
                   THEN "0"
                   ELSE table.rows[i][c]]])

\* the tables of a year that are drawn where they are used: those of a year
\* with no accident row hold no row either
YearTables(y, tables, empty) ==
    IF crash[y].rows = <<>> THEN {empty} ELSE tables

\* the year whose accident table holds rows: the first or the last of the
\* loop (the tables of a year are read in the pass of that year only)
BusyYears == {FirstCrashYear, LastCrashYear}

InitMerge ==
    /\ \E busy \in BusyYears, t \in AccTables :
         crash = [y \in CrashYears |->
                    IF y = busy THEN t ELSE Tbl(AccCols, <<>>)]
    /\ meta = EmptyDict
    /\ yr = FirstCrashYear
    /\ stage = "drop"
    /\ veh_aggregated = <<>> /\ acc_this_yr = NoTbl
    /\ conn = NoConn /\ records = NoTbl
    /\ IdleMatch /\ IdleRec /\ IdleVeh

\* lines 307-308: crash[yr] = crash[yr].drop(acc_drop, axis=1)
DropAcc ==
    /\ stage = "drop"
    /\ crash' = [crash EXCEPT ![yr] = Drop(crash[yr], acc_drop)]
    /\ IF yr < LastCrashYear
       THEN yr' = yr + 1 /\ stage' = stage
       ELSE yr' = FirstCrashYear /\ stage' = "veh"
    /\ UNCHANGED <<meta, veh_aggregated, acc_this_yr, conn, records,
                   matchVars, recVars, vehVars>>

\* lines 314 and 332
VehStage ==
    /\ stage = "veh"
    /\ \E veh \in YearTables(yr, VehTables, <<>>) :
         /\ veh_aggregated' = VehAgg(veh, yr)
         /\ acc_this_yr' = MergeOnCaseNo(crash[yr], VehAgg(veh, yr))
    /\ stage' = "road"
    /\ UNCHANGED <<crash, meta, yr, conn, records, matchVars, recVars,
                   vehVars>>

\* lines 342-351: the results the road query and the random removal of
\* duplicates can leave, one for every choice of the rows kept
RoadOutcomes(left, right) ==
    LET joined == InnerJoin(left, right, RoadKeys)
    IN {Drop(KeepRows(joined, keep), KeyCols(RoadKeys)) :
           keep \in Keepers(joined.rows)}

\* lines 359-370
CurvOutcomes(left, right) ==
    LET joined == LeftJoin(left, right, CurvKeys)
    IN {FillNa(Drop(KeepRows(joined, keep), KeyCols(CurvKeys)),
               "deg_curv", 0) :
           keep \in Keepers(joined.rows)}

\* lines 377-401
GradOutcomes(left, right) ==
    LET joined == LeftJoin(left, right, GradKeys)
    IN {FixLastButOne(FillNa(Drop(KeepRows(joined, keep), KeyCols(GradKeys)),
                             "pct_grad", 0)) :
           keep \in Keepers(joined.rows)}

\* lines 337-351
RoadStage ==
    /\ stage = "road"
    /\ \E road \in YearTables(yr, RoadTables, Tbl(RoadCols, <<>>)) :
       \E road_this_yr \in {Drop(road, road_drop)} :
       \E out \in RoadOutcomes(acc_this_yr, road_this_yr) :
         /\ conn' = [lname |-> "crash", rname |-> "road",
                     left |-> acc_this_yr, right |-> road_this_yr]
         /\ records' = out
    /\ stage' = "curv"
    /\ UNCHANGED <<crash, meta, yr, veh_aggregated, acc_this_yr, matchVars,
                   recVars, vehVars>>

\* lines 354-370
CurvStage ==
    /\ stage = "curv"
    /\ \E curv \in YearTables(yr, CurvTables, Tbl(CurvCols, <<>>)) :
       \E curv_this_yr \in {Drop(curv, curv_drop)} :
       \E out \in CurvOutcomes(records, curv_this_yr) :
         /\ conn' = [lname |-> "records", rname |-> "curv",
                     left |-> records, right |-> curv_this_yr]
         /\ records' = out
    /\ stage' = "grad"
    /\ UNCHANGED <<crash, meta, yr, veh_aggregated, acc_this_yr, matchVars,
                   recVars, vehVars>>

\* lines 373-407
GradStage ==
    /\ stage = "grad"
    /\ \E grad \in YearTables(yr, GradTables, Tbl(GradCols, <<>>)) :
       \E grad_this_yr \in {Drop(grad, grad_drop)} :
       \E out \in GradOutcomes(records, grad_this_yr) :
         /\ conn' = [lname |-> "records", rname |-> "grad",
                     left |-> records, right |-> grad_this_yr]
         /\ records' = out
         /\ meta' = Put(meta, yr, out)
    /\ IF yr < LastCrashYear
       THEN yr' = yr + 1 /\ stage' = "veh"
       ELSE yr' = yr /\ stage' = "return"
    /\ UNCHANGED <<crash, veh_aggregated, acc_this_yr, matchVars, recVars,
                   vehVars>>

NextMerge ==
    \/ DropAcc
    \/ VehStage
    \/ RoadStage
    \/ CurvStage
    \/ GradStage

SpecMerge == InitMerge /\ [][NextMerge]_vars

(***************************************************************************)
(* The claims on meta_merge.  After a join stage, conn holds the two       *)
(* tables the stage's query read and records the stage's result.           *)
(***************************************************************************)
\* the attribute columns a stage adds, and the value a stage leaves in an
\* attribute of a row that no segment matched
StageKeys(name) ==
    CASE name = "road" -> RoadKeys
      [] name = "curv" -> CurvKeys
      [] name = "grad" -> GradKeys

StageAttrs(name) ==
    CASE name = "road" -> {"AADT"}
      [] name = "curv" -> {"deg_curv"}
      [] name = "grad" -> {"dir_grad", "pct_grad"}

DefaultOf(col) == IF col = "dir_grad" THEN "0" ELSE 0

Joins == {"road", "curv", "grad"}
LeftJoins == {"curv", "grad"}

RowsOf(table) == {table.rows[i] : i \in 1..Len(table.rows)}

\* the segments of the stage's segment table that a base row falls in
Matching(l) == {r \in RowsOf(conn.right) : InSegment(l, r, StageKeys(conn.rname))}

\* the row out is the base row l with the attributes of the segment r
JoinedTo(out, l, r) ==
    /\ \A c \in DOMAIN l : out[c] = l[c]
    /\ \A c \in StageAttrs(conn.rname) : out[c] = r[c]

\* the row out is the base row l with the stage's attributes at their defaults
Defaulted(out, l) ==
    /\ \A c \in DOMAIN l : out[c] = l[c]
    /\ \A c \in StageAttrs(conn.rname) : out[c] = DefaultOf(c)

\* the base row l is in the stage's result, joined to a segment it falls in
\* or, when it falls in none, with the defaults
Kept(l) ==
    \E out \in RowsOf(records) :
        IF Matching(l) = {}
        THEN Defaulted(out, l)
        ELSE \E r \in Matching(l) : JoinedTo(out, l, r)

Distinct(rows) == Cardinality(CaseSet(rows)) = Len(rows)

\* C3, as stated: in the road, curve and grade joins no base row is dropped;
\* a row that falls in a segment is in the result joined to such a segment,
\* and a row that falls in none is in the result with the defaults.
C3_NoBaseRowDropped ==
    conn.rname \in Joins => \A l \in RowsOf(conn.left) : Kept(l)

\* C3, amended: the curve and grade joins drop no base row (a row that falls
\* in a segment is in the result joined to such a segment, a row that falls
\* in none is in the result with deg_curv 0, or pct_grad 0 and dir_grad '0');
\* the road join keeps the rows that fall in a road segment, joined to such
\* a segment, and drops the rows that fall in none.
C3_LeftJoinsKeepRoadJoinDrops ==
    /\ conn.rname \in LeftJoins => \A l \in RowsOf(conn.left) : Kept(l)
    /\ conn.rname = "road" =>
          \A l \in RowsOf(conn.left) :
              IF Matching(l) = {}
              THEN l["CASENO"] \notin CaseSet(records.rows)
              ELSE Kept(l)

\* a curve join of two base rows: one falls in a curve segment and is joined
\* to it, the other falls in none and has deg_curv 0
C3_Witness ==
    /\ conn.rname = "curv"
    /\ Len(conn.left.rows) = 2
    /\ \E l \in RowsOf(conn.left) : Matching(l) # {} /\ Kept(l)
    /\ \E l \in RowsOf(conn.left) : Matching(l) = {} /\ Kept(l)

\* the case numbers of a year's accident table that have a vehicle row
WithVehicle(y) == CaseSet(crash[y].rows) \cap CaseSet(veh_aggregated)

\* C4, as stated: each case number of a year's accident table is exactly
\* once in the year's output table.
C4_EachCaseExactlyOnce ==
    \A y \in DOMAIN meta :
        \A c \in CaseSet(crash[y].rows) :
            Cardinality({i \in 1..Len(meta[y].rows) :
                            meta[y].rows[i]["CASENO"] = c}) = 1

\* C4, amended: each case number of a year's accident table is at most once
\* in the year's output table, and exactly once when the case has a vehicle
\* row and its accident row falls in a road segment: the vehicle merge keeps
\* the cases with a vehicle row, the road join keeps of these the cases that
\* fall in a road segment, each once, and the curve and grade joins keep
\* each case of their base once.
C4_OncePerCaseWithVehicleAndRoad ==
    /\ \A y \in DOMAIN meta :
          /\ Distinct(meta[y].rows)
          /\ CaseSet(meta[y].rows) \subseteq CaseSet(crash[y].rows)
    /\ stage \in {"road", "curv"} =>
          /\ Distinct(acc_this_yr.rows)
          /\ CaseSet(acc_this_yr.rows) = WithVehicle(yr)
    /\ conn.rname \in Joins => Distinct(records.rows)
    /\ stage = "curv" =>
          /\ conn.left = acc_this_yr
          /\ CaseSet(records.rows) =
                {l["CASENO"] : l \in {b \in RowsOf(conn.left) :
                                         Matching(b) # {}}}
    /\ conn.rname \in LeftJoins =>
          CaseSet(records.rows) = CaseSet(conn.left.rows)
    /\ (conn.rname = "grad" /\ stage = "return") => meta[yr] = records
    /\ (conn.rname = "grad" /\ stage = "veh") => meta[yr - 1] = records

\* a year with two cases in the accident table and one in the output, whose
\* accident row fell in two grade segments
C4_Witness ==
    /\ stage = "return"
    /\ conn.rname = "grad"
    /\ \E l \in RowsOf(conn.left) : Cardinality(Matching(l)) = 2
    /\ Len(crash[yr].rows) = 2
    /\ Len(meta[yr].rows) = 1

\* C10: the join stages of a year run in the order road, curve, grade; the
\* curve and the grade stage take the result of the stage before as their
\* base, with at most one row per case number and without the key columns
\* of the stage before.
C10_StagesChained ==
    [][/\ stage' # stage =>
             <<stage, stage'>> \in {<<"drop", "veh">>, <<"veh", "road">>,
                                    <<"road", "curv">>, <<"curv", "grad">>,
                                    <<"grad", "veh">>, <<"grad", "return">>}
       /\ conn' # conn =>
             /\ <<stage, conn'.rname>> \in {<<"road", "road">>,
                                            <<"curv", "curv">>,
                                            <<"grad", "grad">>}
             /\ conn'.rname \in LeftJoins =>
                   /\ conn'.left = records
                   /\ Distinct(records.rows)
                   /\ conn.rname =
                         (IF conn'.rname = "curv" THEN "road" ELSE "curv")
                   /\ Range(records.cols)
                         \cap Range(KeyCols(StageKeys(conn.rname))) = {}]_vars

\* a grade join whose base, the result of the curve join, has two rows
C10_Witness ==
    /\ conn.rname = "grad"
    /\ Len(conn.left.rows) = 2
    /\ Len(conn.right.rows) = 2
    /\ Len(records.rows) = 2

\* the results the stage that filled conn can leave on the tables of conn
StageOutcomes ==
    CASE conn.rname = "road" -> RoadOutcomes(conn.left, conn.right)
      [] conn.rname = "curv" -> CurvOutcomes(conn.left, conn.right)
      [] conn.rname = "grad" -> GradOutcomes(conn.left, conn.right)

\* C11: the row a join stage keeps for a case number is the base row joined
\* to a segment it falls in (with the defaults when it falls in none), and
\* the input does not determine which: for every segment that a base row
\* falls in, the stage has a result on the same tables in which the row of
\* that segment is the one kept, so that a row that falls in segments of
\* different attributes has several results.
C11_AnyMatchingSegmentCanSurvive ==
    conn.rname \in Joins =>
        LET outs == StageOutcomes
        IN /\ records \in outs
           /\ \A out \in RowsOf(records) :
                 \E l \in RowsOf(conn.left) :
                     /\ l["CASENO"] = out["CASENO"]
                     /\ IF Matching(l) = {}
                        THEN Defaulted(out, l)
                        ELSE \E r \in Matching(l) : JoinedTo(out, l, r)
           /\ \A l \in RowsOf(conn.left) :
                 /\ \A r \in Matching(l) :
                       \E res \in outs :
                           \E out \in RowsOf(res) : JoinedTo(out, l, r)
                 /\ Cardinality(Matching(l)) > 1 => Cardinality(outs) > 1

\* a curve join in which a base row fell in two curve segments and the row
\* kept for its case number is the one of the second segment
C11_Witness ==
    /\ conn.rname = "curv"
    /\ \E l \in RowsOf(conn.left) :
          /\ Cardinality(Matching(l)) = 2
          /\ \E out \in RowsOf(records) :
                /\ out["CASENO"] = l["CASENO"]
                /\ out["deg_curv"] = 2

\* C12: meta_merge never changes the year-keyed tables of its caller: in
\* every step of a call the caller's crash mapping holds, for every year,
\* the table it held before the step, with the same columns.  (crash is the
\* one input mapping meta_merge assigns to; veh, road, curv and grad are
\* only read.)
C12_InputTablesNeverChange ==
    [][\A y \in CrashYears :
          /\ crash'[y] = crash[y]
          /\ crash'[y].cols = AccCols]_vars

====
